---- MODULE Spec2Model ----
(***************************************************************************)
(* A model of eth-approvals (src/index.js): reconstruction of the ERC-20   *)
(* approvals of an address from its Approval logs (getApprovals), the      *)
(* batch barrier every pass goes through (makeBatchRequestPromise) and the *)
(* risk scoring of the reconstructed approvals (addApprovalRiskScore).     *)
(*                                                                         *)
(* JavaScript values are tagged records [t, v]: a decimal string such as   *)
(* "50" is Str(50), the number 0 is Num(0), a missing property is          *)
(* Undefined.  A decimal string is represented by the number it denotes    *)
(* (BN's toString(10) is canonical), so Str(0) and Num(0) stay distinct:   *)
(* the string "0" is truthy and the number 0 is falsy.                     *)
(***************************************************************************)
EXTENDS Integers, Sequences, FiniteSets, TLC

VARIABLES
    pc,             \* position of the async function being run
    address,        \* getApprovals: the queried address, as passed
    blockNumber,    \* the block height the function works at (0: not given yet)
    rawLogs,        \* what w3.eth.getPastLogs answered, in the client's order
    approvalMap,    \* getApprovals: the object approvalMap, in key insertion order
    thrown,         \* the error the function was rejected with ("" : none)
    report,         \* {owner, approvals}: what getApprovals returned
    kind,           \* which pass the current batch belongs to
    items,          \* makeBatchRequestPromise: Array.from(items)
    pending,        \* indices of the items whose callback has not fired yet
    numRequests,    \* makeBatchRequestPromise: numRequests
    numResponses,   \* makeBatchRequestPromise: numResponses
    promise,        \* "none" | "pending" | "resolved" | "rejected"
    handled,        \* indices of the items handleItem has run for
    executed,       \* number of batch.execute() calls so far
    requests,       \* every request handed to batch.add so far
    outcome,        \* per pass, per item: what the item's callback was given
    writers,        \* <<slot, item index>> for every write of the current batch's handler
    balances,       \* addApprovalRiskScore: the object balances
    decimalsMap,    \* addApprovalRiskScore: the object decimalsMap
    exchangeRates,  \* addApprovalRiskScore: exchangeRates
    reputations,    \* addApprovalRiskScore: the reputations it was given
    etherscanApiKey, \* addApprovalRiskScore: the API key it was given
    scored,         \* what addApprovalRiskScore returned
    chainHeight,    \* the height of the chain the client is at
    argv,           \* main: the command line options calculateRisk and etherscanApiKey
    calls           \* every getBlockNumber and getPastLogs call made so far

\* the state of makeBatchRequestPromise
batchVars == <<kind, items, pending, numRequests, numResponses, promise, handled,
               executed, requests, outcome, writers>>
\* the locals of getApprovals
approvalVars == <<address, rawLogs, approvalMap>>
\* the parameters and locals of addApprovalRiskScore
riskVars == <<balances, decimalsMap, exchangeRates, reputations, etherscanApiKey, scored>>

\* the chain, the command line and the calls outside the batches
mainVars == <<chainHeight, argv, calls>>

vars == <<pc, blockNumber, thrown, report, batchVars, approvalVars, riskVars, mainVars>>

-----------------------------------------------------------------------------
(* Bounds of the model. *)

\* the most logs getPastLogs answers with
MaxLogs == 2
\* log data words and approved amounts range over 0..MaxAmount
MaxAmount == 1
\* allowances the token contracts answer range over 0..MaxAllowance
MaxAllowance == 1
\* the chain height when the run starts; log block numbers range over 1..MaxBlock
MaxBlock == 2

-----------------------------------------------------------------------------
(* JavaScript values. *)

Undefined == [t |-> "undefined", v |-> 0]
Str(n) == [t |-> "str", v |-> n]
Num(n) == [t |-> "num", v |-> n]
True == [t |-> "bool", v |-> 1]

\* no error / some error, as the first argument of a callback
NoError == "null"
SomeError == "Error"

-----------------------------------------------------------------------------
(* Addresses, topics and logs. *)

\* the address on the command line keeps its checksum capitals; topics are lower case
QueriedAddress == "0xO1"
Contracts == {"0xc1", "0xc2"}
\* w3.utils.padLeft('0x0', 40)
nullAddress == "0x0000"
Spenders == {"0xs1", "0xs2", nullAddress}
OtherOwner == "0xo2"

\* String.prototype.toLowerCase on the addresses of the model
toLowerCase(a) == IF a = "0xO1" THEN "0xo1" ELSE a

\* ERC20Topics
APPROVAL == "sha3(Approval(address,address,uint256))"
TRANSFER == "sha3(Transfer(address,address,uint256))"

\* a 32-byte topic word: whether its first 12 bytes are zero, and its last 20 bytes
Padded(a) == [zeroPrefix |-> TRUE, low |-> a]
Unpadded(a) == [zeroPrefix |-> FALSE, low |-> a]

\* (blockNumber, transactionIndex, logIndex) of the logs the client may answer with:
\* they differ in the third key only, in the second, and in the first
Positions == {<<1, 0, 1>>, <<1, 1, 0>>, <<MaxBlock, 0, 0>>}

Log(contract, topics, data, pos) ==
    [address |-> contract, topics |-> topics, data |-> data,
     blockNumber |-> pos[1], transactionIndex |-> pos[2], logIndex |-> pos[3]]

\* the Approval logs of the queried owner
WellFormedLogs ==
    {Log(c, <<APPROVAL, Padded(toLowerCase(QueriedAddress)), Padded(s)>>, d, p) :
        c \in Contracts, s \in Spenders, d \in 0..MaxAmount, p \in Positions}

\* logs a client that breaks the filter contract may answer with, at the middle
\* position so that well-formed logs can come before and after them
MalformedLogs ==
    {Log("0xc1", <<TRANSFER, Padded(toLowerCase(QueriedAddress)), Padded("0xs1")>>, 1, <<1, 1, 0>>),
     Log("0xc1", <<APPROVAL, Unpadded(toLowerCase(QueriedAddress)), Padded("0xs1")>>, 1, <<1, 1, 0>>),
     Log("0xc1", <<APPROVAL, Padded(toLowerCase(QueriedAddress)), Unpadded("0xs1")>>, 1, <<1, 1, 0>>),
     Log("0xc1", <<APPROVAL, Padded(OtherOwner), Padded("0xs1")>>, 1, <<1, 1, 0>>)}

Logs == WellFormedLogs \cup MalformedLogs

SeqsUpTo(S, n) == UNION {[1..k -> S] : k \in 0..n}

-----------------------------------------------------------------------------
(* compareNumberKeys and Array.prototype.sort. *)

\* a value or a throw
Return(x) == [threw |-> FALSE, val |-> x, error |-> ""]
Throw(e) == [threw |-> TRUE, val |-> <<>>, error |-> e]

SortKeys == <<"blockNumber", "transactionIndex", "logIndex">>

RECURSIVE compareLoop(_, _, _, _)
compareLoop(keys, a, b, k) ==
    IF k > Len(keys)
    THEN \* `return result` outside the loop that declares result
         [threw |-> TRUE, val |-> 0, error |-> "ReferenceError: result is not defined"]
    ELSE LET result == a[keys[k]] - b[keys[k]]
         IN IF result # 0
            THEN [threw |-> FALSE, val |-> result, error |-> ""]
            ELSE compareLoop(keys, a, b, k + 1)

\* a comparator with its operands swapped: the sort is descending
compareNumberKeysDescending(keys, a, b) == compareLoop(keys, b, a, 1)

compareNumberKeys(keys, a, b) == compareLoop(keys, a, b, 1)

\* x is inserted into the sorted s from the right; comparing stops at the first
\* element that is not after x, and a throw of the comparator ends the sort
RECURSIVE insertSorted(_, _, _)
insertSorted(s, x, i) ==
    IF i = 0
    THEN Return(<<x>> \o s)
    ELSE LET c == compareNumberKeys(SortKeys, x, s[i])
         IN IF c.threw
            THEN Throw(c.error)
            ELSE IF c.val < 0
                 THEN insertSorted(s, x, i - 1)
                 ELSE Return(SubSeq(s, 1, i) \o <<x>> \o SubSeq(s, i + 1, Len(s)))

RECURSIVE sortFrom(_, _, _)
sortFrom(logs, sorted, k) ==
    IF k > Len(logs)
    THEN Return(sorted)
    ELSE LET r == insertSorted(sorted, logs[k], Len(sorted))
         IN IF r.threw THEN r ELSE sortFrom(logs, r.val, k + 1)

\* the logs are left in the order the client returned them
keepOrder(logs) == Return(logs)

\* logs.sort(compareNumberKeys([...]))
sortLogs(logs) == sortFrom(logs, <<>>, 1)

-----------------------------------------------------------------------------
(* unpadAddress and the reconstruction loop of getApprovals. *)

\* an unpadAddress that drops the first 12 bytes without looking at them
unpadAddressUnchecked(topic) == Return(topic.low)

unpadAddress(topic) ==
    IF ~topic.zeroPrefix
    THEN Throw("Not an address")
    ELSE Return(topic.low)

\* w3.utils.toBN(txLog.data).toString(10)
amountOf(data) == Str(data)

KeyIndex(map, key) == {i \in 1..Len(map) : map[i].key = key}

\* approvalMap[approvalKey] = {amount}: a new key goes last, a known key keeps its
\* place and gets a fresh object
assignAmount(map, key, amount) ==
    LET entry == [key |-> key, amount |-> amount,
                  allowance |-> Undefined, allowanceError |-> Undefined]
    IN IF KeyIndex(map, key) = {}
       THEN Append(map, entry)
       ELSE [map EXCEPT ![CHOOSE i \in KeyIndex(map, key) : TRUE] = entry]

RECURSIVE decodeFrom(_, _, _, _)
decodeFrom(logs, addressLower, map, k) ==
    IF k > Len(logs)
    THEN Return(map)
    ELSE LET txLog == logs[k]
             action == txLog.topics[1]
             owner == unpadAddress(txLog.topics[2])
             spender == unpadAddress(txLog.topics[3])
         IN IF action # APPROVAL
            THEN Throw("Unexpected non-Approval topic in query result logs")
            ELSE IF owner.threw
            THEN Throw(owner.error)
            ELSE IF spender.threw
            THEN Throw(spender.error)
            ELSE IF owner.val # addressLower
            THEN Throw("Obtained an approval which is not from request owner")
            ELSE decodeFrom(logs, addressLower,
                            assignAmount(map, <<txLog.address, spender.val>>,
                                         amountOf(txLog.data)),
                            k + 1)

\* the sort and the forEach of getApprovals
reconstruct(logs, addr) ==
    LET approvalLogs == sortLogs(logs)
    IN IF approvalLogs.threw
       THEN approvalLogs
       ELSE decodeFrom(approvalLogs.val, toLowerCase(addr), <<>>, 1)

\* the filter with the test of the amount that the source keeps commented out
validApprovalsNonZero(map) ==
    LET kept == SelectSeq(map, LAMBDA e : e.amount # Str(0) /\ e.key[2] # nullAddress)
    IN [i \in 1..Len(kept) |-> kept[i].key]

\* Object.keys(approvalMap).filter(key => spender !== nullAddress)
validApprovals(map) ==
    LET keys == [i \in 1..Len(map) |-> map[i].key]
    IN SelectSeq(keys, LAMBDA key : key[2] # nullAddress)

-----------------------------------------------------------------------------
(* makeBatchRequestPromise. *)

NotFired == [error |-> "pending", result |-> Undefined]

\* a barrier that opens at the first response
anyResponded(responses, total) == responses >= 1

\* if (numResponses === numRequests)
allResponded(responses, total) == responses = total

\* a request handed to batch.add: the call, its target and the block it is made at
\* (arg1, arg2 are the call's address arguments, exponent the power of ten of an
\* amount argument)
Request(method, to, arg1, arg2, exponent, block) ==
    [method |-> method, to |-> to, arg1 |-> arg1, arg2 |-> arg2,
     exponent |-> exponent, block |-> block]

Passes == {"allowance", "balance", "decimals", "rate"}

\* new Promise(...): the executor builds one request per item, adds it to the batch
\* and executes the batch; nothing else settles the promise
makeBatchRequestPromise(k, its, reqs) ==
    /\ kind' = k
    /\ items' = its
    /\ numRequests' = Len(its)
    /\ numResponses' = 0
    /\ pending' = 1..Len(its)
    /\ handled' = {}
    /\ outcome' = [outcome EXCEPT ![k] = [i \in 1..Len(its) |-> NotFired]]
    /\ writers' = {}
    /\ promise' = "pending"
    /\ requests' = requests \cup reqs
    /\ executed' = executed + 1

\* cb: the bookkeeping around handleItem, for the item at index i; slot is the
\* place of the result maps that handleItem writes for it
cb(i, error, result, slot) ==
    /\ promise # "none"
    /\ i \in pending
    /\ pending' = pending \ {i}
    /\ numResponses' = numResponses + 1
    /\ handled' = handled \cup {i}
    /\ outcome' = [outcome EXCEPT ![kind][i] = [error |-> error, result |-> result]]
    /\ writers' = writers \cup {<<slot, i>>}
    /\ promise' = IF promise = "pending" /\ allResponded(numResponses + 1, numRequests)
                  THEN "resolved"
                  ELSE promise
    /\ UNCHANGED <<kind, items, numRequests, executed, requests>>

-----------------------------------------------------------------------------
(* getApprovals. *)

\* the command line of a run that does not go through main
NoArgv == [calculateRisk |-> FALSE, etherscanApiKey |-> Undefined]

\* a height that is read from the chain at every use
currentHeight(block, height) == height

\* blockNumber || await w3.eth.getBlockNumber(): the height given, else the chain's
heightOr(block, height) == IF block # 0 THEN block ELSE height

\* the getBlockNumber call the || makes when no height was given
heightReads(reader, block, height) ==
    IF block # 0 THEN {} ELSE {Request("getBlockNumber", "", reader, "", 0, height)}

\* blockNumber = blockNumber || await w3.eth.getBlockNumber()
GetBlockNumber ==
    /\ pc = "ga_start"
    /\ blockNumber' = heightOr(blockNumber, chainHeight)
    /\ calls' = calls \cup heightReads("getApprovals", blockNumber, chainHeight)
    /\ pc' = "ga_getPastLogs"
    /\ UNCHANGED <<thrown, report, batchVars, approvalVars, riskVars, chainHeight, argv>>

\* filter = {fromBlock: 1, toBlock: blockNumber, topics: [APPROVAL, padLeft(address), null]}
getPastLogsFilter(addr, block) == Request("getPastLogs", "", addr, "", 0, block)

\* await w3.eth.getPastLogs(filter): the client answers with some logs of the pool
\* in some order
getPastLogs(pool) ==
    /\ pc = "ga_getPastLogs"
    /\ calls' = calls \cup {getPastLogsFilter(address, blockNumber)}
    /\ \E logs \in SeqsUpTo(pool, MaxLogs) : rawLogs' = logs
    /\ pc' = "ga_reconstruct"
    /\ UNCHANGED <<address, approvalMap, blockNumber, thrown, report, batchVars, riskVars,
                   chainHeight, argv>>

GetPastLogs == getPastLogs(Logs)

\* the sort or the forEach throws: getApprovals is rejected
ReconstructThrows ==
    /\ pc = "ga_reconstruct"
    /\ reconstruct(rawLogs, address).threw
    /\ thrown' = reconstruct(rawLogs, address).error
    /\ pc' = "ga_failed"
    /\ UNCHANGED <<blockNumber, report, batchVars, approvalVars, riskVars, mainVars>>

allowanceRequests(keys) ==
    {Request("allowance", keys[i][1], address, keys[i][2], 0, blockNumber) :
        i \in 1..Len(keys)}

\* the map is built, the null spenders are filtered out of the keys and the
\* allowance batch is executed
ReconstructApprovals ==
    /\ pc = "ga_reconstruct"
    /\ ~reconstruct(rawLogs, address).threw
    /\ approvalMap' = reconstruct(rawLogs, address).val
    /\ makeBatchRequestPromise("allowance", validApprovals(approvalMap'),
                               allowanceRequests(validApprovals(approvalMap')))
    /\ pc' = "ga_awaitAllowance"
    /\ UNCHANGED <<address, rawLogs, blockNumber, thrown, report, riskVars, mainVars>>

\* a handler whose error branch marks every approval of the batch
handleAllowancePoisoning(map, key, error, allowance) ==
    LET i == CHOOSE j \in KeyIndex(map, key) : TRUE
    IN IF error # NoError
       THEN [j \in 1..Len(map) |-> [map[j] EXCEPT !.allowanceError = True]]
       ELSE [map EXCEPT ![i].allowance = allowance]

\* approvalMap[key]: the slot the allowance handler writes
allowanceSlot(key) == <<"approvalMap", key[1], key[2]>>

\* a handler whose error branch falls through to the assignment of a default allowance
handleAllowanceDefaulting(map, key, error, allowance) ==
    LET i == CHOOSE j \in KeyIndex(map, key) : TRUE
    IN IF error # NoError
       THEN [map EXCEPT ![i].allowanceError = True, ![i].allowance = Str(0)]
       ELSE [map EXCEPT ![i].allowance = allowance]

\* (key, error, allowance) => {...}
handleAllowance(map, key, error, allowance) ==
    LET i == CHOOSE j \in KeyIndex(map, key) : TRUE
    IN IF error # NoError
       THEN [map EXCEPT ![i].allowanceError = True]
       ELSE [map EXCEPT ![i].allowance = allowance]

\* the callback of one allowance request fires, with an error or with an allowance
AllowanceCallback ==
    /\ pc = "ga_awaitAllowance"
    /\ \E i \in pending :
          \/ /\ cb(i, SomeError, Undefined, allowanceSlot(items[i]))
             /\ approvalMap' = handleAllowance(approvalMap, items[i], SomeError, Undefined)
          \/ \E a \in 0..MaxAllowance :
                /\ cb(i, NoError, Str(a), allowanceSlot(items[i]))
                /\ approvalMap' = handleAllowance(approvalMap, items[i], NoError, Str(a))
    /\ UNCHANGED <<pc, address, rawLogs, blockNumber, thrown, report, riskVars, mainVars>>

\* Object.keys(approvalMap).map(...)
approvalsOf(map) ==
    [i \in 1..Len(map) |->
        [contract |-> map[i].key[1], spender |-> map[i].key[2],
         amount |-> map[i].amount, allowance |-> map[i].allowance,
         allowanceError |-> map[i].allowanceError]]

\* the await of the batch promise returns and getApprovals returns its report
GetApprovalsReturn ==
    /\ pc = "ga_awaitAllowance"
    /\ promise = "resolved"
    /\ report' = [owner |-> address, approvals |-> approvalsOf(approvalMap)]
    /\ pc' = "ga_done"
    /\ UNCHANGED <<blockNumber, thrown, batchVars, approvalVars, riskVars, mainVars>>

NoReport == [owner |-> "", approvals |-> <<>>]

\* addApprovalRiskScore has not been called
RiskInit ==
    /\ balances = [c \in Contracts |-> Undefined]
    /\ decimalsMap = [c \in Contracts |-> Undefined]
    /\ exchangeRates = [c \in Contracts |-> Undefined]
    /\ reputations = <<>>
    /\ etherscanApiKey = Undefined
    /\ scored = NoReport

InitApprovals ==
    /\ pc = "ga_start"
    /\ address = QueriedAddress
    /\ blockNumber = 0
    /\ rawLogs = <<>>
    /\ approvalMap = <<>>
    /\ thrown = ""
    /\ report = NoReport
    /\ kind = "none"
    /\ items = <<>>
    /\ pending = {}
    /\ numRequests = 0
    /\ numResponses = 0
    /\ promise = "none"
    /\ handled = {}
    /\ executed = 0
    /\ requests = {}
    /\ outcome = [k \in Passes |-> <<>>]
    /\ writers = {}
    /\ RiskInit
    /\ chainHeight = MaxBlock
    /\ argv = NoArgv
    /\ calls = {}

NextApprovals ==
    \/ GetBlockNumber
    \/ GetPastLogs
    \/ ReconstructThrows
    \/ ReconstructApprovals
    \/ AllowanceCallback
    \/ GetApprovalsReturn

SpecApprovals == InitApprovals /\ [][NextApprovals]_vars

-----------------------------------------------------------------------------
(* addApprovalRiskScore. *)

\* DEXs.UniswapV2Router02 and WellKnownTokens.WETH
UniswapV2Router02 == "0x7a25"
WETH == "0xc02a"

\* decimals = '18'
DefaultDecimals == 18
\* blockNumber || 'latest'
Latest == -1

\* what !x is false of, for the values of the model (a string of the model is not empty)
truthy(x) == x # Undefined /\ x # Num(0)

\* [...new Set(approvals.map(approval => approval.contract))]: each contract once, in
\* the order of its first approval
RECURSIVE uniqueContracts(_, _, _)
uniqueContracts(approvals, seen, k) ==
    IF k > Len(approvals)
    THEN seen
    ELSE IF \E j \in 1..Len(seen) : seen[j] = approvals[k].contract
         THEN uniqueContracts(approvals, seen, k + 1)
         ELSE uniqueContracts(approvals, Append(seen, approvals[k].contract), k + 1)

tokenAddressesOf(approvals) == uniqueContracts(approvals, <<>>, 1)

tokenAddresses == tokenAddressesOf(report.approvals)

balanceRequests(approvals, owner, block) ==
    {Request("balanceOf", approvals[i].contract, owner, "", 0, block) :
        i \in 1..Len(approvals)}

\* balances[approval.contract]: the slot the balance handler writes
balanceSlot(approval) == <<"balances", approval.contract, "">>

\* (approval, error, balance) => {...}
handleBalance(bal, approval, error, balance) ==
    [bal EXCEPT ![approval.contract] = IF error # NoError THEN Num(0) ELSE balance]

decimalsRequests(tokens) ==
    {Request("decimals", tokens[i], "", "", 0, blockNumber) : i \in 1..Len(tokens)}

decimalsSlot(tokenAddress) == <<"decimalsMap", tokenAddress, "">>

\* a handler that stores the default precision whatever the call answered
handleDecimalsAlwaysDefault(dec, tokenAddress, error, decimals) ==
    [dec EXCEPT ![tokenAddress] = Str(DefaultDecimals)]

\* (tokenAddress, error, decimals) => {...}
handleDecimals(dec, tokenAddress, error, decimals) ==
    [dec EXCEPT ![tokenAddress] = IF error # NoError THEN Str(DefaultDecimals) ELSE decimals]

\* getTokenWeiExchangeRateRequest: getAmountsOut(10 ** decimals, [tokenAddress, WETH])
getTokenWeiExchangeRateRequest(tokenAddress, block, decimals) ==
    Request("getAmountsOut", UniswapV2Router02, tokenAddress, WETH, decimals.v,
            IF block # 0 THEN block ELSE Latest)

rateRequests(tokens, dec) ==
    {getTokenWeiExchangeRateRequest(tokens[i], blockNumber, dec[tokens[i]]) :
        i \in 1..Len(tokens)}

rateSlot(tokenAddress) == <<"exchangeRates", tokenAddress, "">>

\* (tokenAddress, error, rates) => {...}; the quotes of the model divide exactly
handleRate(rates, tokenAddress, error, result) ==
    LET pair == IF error # NoError THEN <<Num(1), Num(0)>> ELSE result
        amountInToken == pair[1]
        amountInWei == pair[2]
    IN [rates EXCEPT ![tokenAddress] = Num(amountInWei.v \div amountInToken.v)]

\* what the chain may answer: a balance, the decimals of a token, a quote for one
\* unit of a token (the unit taken as 1)
BalanceResults == {Str(b) : b \in 0..MaxAmount}
DecimalsResults == {Str(6)}
RateResults == {<<Str(1), Str(2)>>}

\* blockNumber = blockNumber || await w3.eth.getBlockNumber(), then the balance batch
RiskStart ==
    /\ pc = "rs_start"
    /\ blockNumber' = heightOr(blockNumber, chainHeight)
    /\ calls' = calls \cup heightReads("addApprovalRiskScore", blockNumber, chainHeight)
    /\ makeBatchRequestPromise("balance", report.approvals,
                               balanceRequests(report.approvals, report.owner, blockNumber'))
    /\ pc' = "rs_awaitBalances"
    /\ UNCHANGED <<thrown, report, approvalVars, riskVars, chainHeight, argv>>

BalanceCallback ==
    /\ pc = "rs_awaitBalances"
    /\ \E i \in pending :
          \/ /\ cb(i, SomeError, Undefined, balanceSlot(items[i]))
             /\ balances' = handleBalance(balances, items[i], SomeError, Undefined)
          \/ \E b \in BalanceResults :
                /\ cb(i, NoError, b, balanceSlot(items[i]))
                /\ balances' = handleBalance(balances, items[i], NoError, b)
    /\ UNCHANGED <<pc, blockNumber, thrown, report, approvalVars, decimalsMap,
                   exchangeRates, reputations, etherscanApiKey, scored,
                   mainVars>>

\* the balance batch is awaited; the decimals batch is executed
StartDecimals ==
    /\ pc = "rs_awaitBalances"
    /\ promise = "resolved"
    /\ makeBatchRequestPromise("decimals", tokenAddresses, decimalsRequests(tokenAddresses))
    /\ pc' = "rs_awaitDecimals"
    /\ UNCHANGED <<blockNumber, thrown, report, approvalVars, riskVars, mainVars>>

DecimalsCallback ==
    /\ pc = "rs_awaitDecimals"
    /\ \E i \in pending :
          \/ /\ cb(i, SomeError, Undefined, decimalsSlot(items[i]))
             /\ decimalsMap' = handleDecimals(decimalsMap, items[i], SomeError, Undefined)
          \/ \E d \in DecimalsResults :
                /\ cb(i, NoError, d, decimalsSlot(items[i]))
                /\ decimalsMap' = handleDecimals(decimalsMap, items[i], NoError, d)
    /\ UNCHANGED <<pc, blockNumber, thrown, report, approvalVars, balances,
                   exchangeRates, reputations, etherscanApiKey, scored,
                   mainVars>>

\* the decimals batch is awaited; the exchange-rate batch is executed
StartRates ==
    /\ pc = "rs_awaitDecimals"
    /\ promise = "resolved"
    /\ makeBatchRequestPromise("rate", tokenAddresses, rateRequests(tokenAddresses, decimalsMap))
    /\ pc' = "rs_awaitRates"
    /\ UNCHANGED <<blockNumber, thrown, report, approvalVars, riskVars, mainVars>>

RateCallback ==
    /\ pc = "rs_awaitRates"
    /\ \E i \in pending :
          \/ /\ cb(i, SomeError, <<Undefined, Undefined>>, rateSlot(items[i]))
             /\ exchangeRates' = handleRate(exchangeRates, items[i], SomeError,
                                            <<Undefined, Undefined>>)
          \/ \E r \in RateResults :
                /\ cb(i, NoError, r, rateSlot(items[i]))
                /\ exchangeRates' = handleRate(exchangeRates, items[i], NoError, r)
    /\ UNCHANGED <<pc, blockNumber, thrown, report, approvalVars, balances,
                   decimalsMap, reputations, etherscanApiKey, scored,
                   mainVars>>

\* if (etherscanApiKey) {...}: the first statement of the loop reads `reputation`,
\* which no scope declares; with no token the statement after the loop reads `url`,
\* which only the loop body declares
VerificationThrows ==
    /\ pc = "rs_awaitRates"
    /\ promise = "resolved"
    /\ truthy(etherscanApiKey)
    /\ thrown' = IF tokenAddresses # <<>>
                 THEN "ReferenceError: reputation is not defined"
                 ELSE "ReferenceError: url is not defined"
    /\ pc' = "rs_failed"
    /\ UNCHANGED <<blockNumber, report, batchVars, approvalVars, riskVars, mainVars>>

\* new Set([]): nothing is added before the scoring runs
verifiedContracts == {}

\* a BN
BN(n) == [t |-> "bn", v |-> n]

\* BN.prototype.cmp(num): the signs are compared first, and a num that is no BN has
\* no `negative` field, which is !== 0
BNcmp(left, num) ==
    IF num.t # "bn"
    THEN 1
    ELSE IF left.v < num.v THEN -1 ELSE IF left.v > num.v THEN 1 ELSE 0

\* BN.min(left, right)
BNmin(left, right) == IF BNcmp(left, right) < 0 THEN left ELSE right

\* reputations[address] || (1 + (verifiedContracts.has(address) ? 1 : 0))
reputation(reps, a) ==
    LET given == IF a \in DOMAIN reps THEN reps[a] ELSE Undefined
    IN IF truthy(given)
       THEN given
       ELSE Num(1 + (IF a \in verifiedContracts THEN 1 ELSE 0))

likelihood(reps, contract, spender) ==
    Num(reputation(reps, contract).v * reputation(reps, spender).v)

\* exchangeRates[token] * amount: the amount is converted to a number
severity(rates, token, amount) == Num(rates[token].v * amount.v)

amountAtRisk(approval, bal) ==
    BNmin(BN(approval.amount.v),
          IF truthy(bal[approval.contract]) THEN bal[approval.contract] ELSE BN(0))

getRiskScore(approval, bal, rates, reps) ==
    Num(severity(rates, approval.contract, amountAtRisk(approval, bal)).v
        * likelihood(reps, approval.contract, approval.spender).v)

\* a scoring that leaves out the approvals to the null address
scoredApprovalsOfValidSpenders(approvals, bal, rates, reps) ==
    LET kept == SelectSeq(approvals, LAMBDA a : a.spender # nullAddress)
    IN [i \in 1..Len(kept) |->
           [contract |-> kept[i].contract, spender |-> kept[i].spender,
            amount |-> kept[i].amount, allowance |-> kept[i].allowance,
            allowanceError |-> kept[i].allowanceError,
            risk |-> getRiskScore(kept[i], bal, rates, reps),
            balance |-> bal[kept[i].contract]]]

\* approvals.map((approval) => ({...approval, risk: ..., balance: ...}))
scoredApprovals(approvals, bal, rates, reps) ==
    [i \in 1..Len(approvals) |->
        [contract |-> approvals[i].contract, spender |-> approvals[i].spender,
         amount |-> approvals[i].amount, allowance |-> approvals[i].allowance,
         allowanceError |-> approvals[i].allowanceError,
         risk |-> getRiskScore(approvals[i], bal, rates, reps),
         balance |-> bal[approvals[i].contract]]]

\* the exchange-rate batch is awaited, no API key is given: the approvals are scored
Score ==
    /\ pc = "rs_awaitRates"
    /\ promise = "resolved"
    /\ ~truthy(etherscanApiKey)
    /\ scored' = [owner |-> report.owner,
                  approvals |-> scoredApprovals(report.approvals, balances,
                                                exchangeRates, reputations)]
    /\ pc' = "rs_done"
    /\ UNCHANGED <<blockNumber, thrown, report, batchVars, approvalVars, balances,
                   decimalsMap, exchangeRates, reputations, etherscanApiKey,
                   mainVars>>

(* The reports addApprovalRiskScore is given are reports of getApprovals: at least
   one approval to a spender other than the null address (getApprovals returns
   once its allowance batch is resolved), each with the allowance or the
   allowanceError its callback wrote, and the approvals to the null address with
   neither. *)
ApprovalKeys == << <<"0xc1", "0xs1">>, <<"0xc1", "0xs2">>, <<"0xc2", nullAddress>> >>

\* the map getApprovals is left with for the given keys and amounts: the allowance
\* calls to 0xs1 returned the approved amount, those to 0xs2 failed
RECURSIVE mapOf(_, _, _)
mapOf(keys, amounts, k) ==
    IF k = 0
    THEN <<>>
    ELSE LET m == assignAmount(mapOf(keys, amounts, k - 1), keys[k], Str(amounts[k]))
         IN IF keys[k][2] = nullAddress
            THEN m
            ELSE IF keys[k][2] = "0xs2"
                 THEN handleAllowance(m, keys[k], SomeError, Undefined)
                 ELSE handleAllowance(m, keys[k], NoError, Str(amounts[k]))

\* the elements of a set of indices, ascending
RECURSIVE ascending(_)
ascending(S) ==
    IF S = {}
    THEN <<>>
    ELSE LET m == CHOOSE x \in S : \A y \in S : y <= x
         IN Append(ascending(S \ {m}), m)

InputReports ==
    {[owner |-> QueriedAddress,
      approvals |-> approvalsOf(mapOf([i \in 1..Len(ascending(S)) |->
                                           ApprovalKeys[ascending(S)[i]]],
                                      amounts, Len(ascending(S))))] :
        S \in {T \in SUBSET (1..Len(ApprovalKeys)) :
                  \E i \in T : ApprovalKeys[i][2] # nullAddress},
        amounts \in [1..Len(ApprovalKeys) -> 0..MaxAmount]}

\* a non-empty API key
SomeApiKey == Str(1)

NoReputations == [a \in {} |-> Undefined]

\* the reputations the caller may give: none, contract 0xc1 blacklisted, contract
\* 0xc1 and spender 0xs1 at 2
ReputationMaps ==
    {NoReputations,
     [a \in {"0xc1"} |-> Num(0)],
     [a \in {"0xc1", "0xs1"} |-> Num(2)]}

InitRisk ==
    /\ pc = "rs_start"
    /\ address = QueriedAddress
    /\ blockNumber = MaxBlock
    /\ rawLogs = <<>>
    /\ approvalMap = <<>>
    /\ thrown = ""
    /\ report \in InputReports
    /\ kind = "none"
    /\ items = <<>>
    /\ pending = {}
    /\ numRequests = 0
    /\ numResponses = 0
    /\ promise = "none"
    /\ handled = {}
    /\ executed = 0
    /\ requests = {}
    /\ outcome = [k \in Passes |-> <<>>]
    /\ writers = {}
    /\ balances = [c \in Contracts |-> Undefined]
    /\ decimalsMap = [c \in Contracts |-> Undefined]
    /\ exchangeRates = [c \in Contracts |-> Undefined]
    /\ \/ reputations \in ReputationMaps /\ etherscanApiKey = Undefined
       \/ reputations = NoReputations /\ etherscanApiKey = SomeApiKey
    /\ scored = NoReport
    /\ chainHeight = MaxBlock
    /\ argv = NoArgv
    /\ calls = {}

NextRisk ==
    \/ RiskStart
    \/ BalanceCallback
    \/ StartDecimals
    \/ DecimalsCallback
    \/ StartRates
    \/ RateCallback
    \/ VerificationThrows
    \/ Score

SpecRisk == InitRisk /\ [][NextRisk]_vars

-----------------------------------------------------------------------------
(* main: the height is read once and handed to getApprovals and, with
   --calculateRisk, to addApprovalRiskScore; the chain may grow meanwhile. *)

\* the most blocks the chain grows by during a run
MaxNewBlocks == 1

\* the logs the client answers with in the runs of main: an approval, an approval of
\* another token to the null address, and a log of another owner
MainLogs ==
    {Log("0xc1", <<APPROVAL, Padded(toLowerCase(QueriedAddress)), Padded("0xs1")>>,
         MaxAmount, <<1, 0, 1>>),
     Log("0xc2", <<APPROVAL, Padded(toLowerCase(QueriedAddress)), Padded(nullAddress)>>,
         MaxAmount, <<1, 1, 0>>),
     Log("0xc1", <<APPROVAL, Padded(OtherOwner), Padded("0xs1")>>, MaxAmount, <<MaxBlock, 0, 0>>)}

\* the client mines a block
NewBlock ==
    /\ chainHeight < MaxBlock + MaxNewBlocks
    /\ chainHeight' = chainHeight + 1
    /\ UNCHANGED <<pc, blockNumber, thrown, report, batchVars, approvalVars, riskVars,
                   argv, calls>>

\* const blockNumber = await w3.eth.getBlockNumber(), then getApprovals is called
MainGetBlockNumber ==
    /\ pc = "main_start"
    /\ blockNumber' = chainHeight
    /\ calls' = calls \cup heightReads("main", 0, chainHeight)
    /\ pc' = "ga_start"
    /\ UNCHANGED <<thrown, report, batchVars, approvalVars, riskVars, chainHeight, argv>>

MainGetPastLogs == getPastLogs(MainLogs)

\* if (argv.calculateRisk): addApprovalRiskScore is called with the result, the
\* height and the API key, and with no reputations
MainAddRiskScore ==
    /\ pc = "ga_done"
    /\ argv.calculateRisk
    /\ etherscanApiKey' = argv.etherscanApiKey
    /\ reputations' = NoReputations
    /\ pc' = "rs_start"
    /\ UNCHANGED <<blockNumber, thrown, report, batchVars, approvalVars, balances,
                   decimalsMap, exchangeRates, scored, mainVars>>

\* console.log(JSON.stringify(result, null, 1))
MainPrint ==
    /\ \/ pc = "ga_done" /\ ~argv.calculateRisk
       \/ pc = "rs_done"
    /\ pc' = "main_done"
    /\ UNCHANGED <<blockNumber, thrown, report, batchVars, approvalVars, riskVars, mainVars>>

InitMain ==
    /\ pc = "main_start"
    /\ address = QueriedAddress
    /\ blockNumber = 0
    /\ rawLogs = <<>>
    /\ approvalMap = <<>>
    /\ thrown = ""
    /\ report = NoReport
    /\ kind = "none"
    /\ items = <<>>
    /\ pending = {}
    /\ numRequests = 0
    /\ numResponses = 0
    /\ promise = "none"
    /\ handled = {}
    /\ executed = 0
    /\ requests = {}
    /\ outcome = [k \in Passes |-> <<>>]
    /\ writers = {}
    /\ RiskInit
    /\ chainHeight = MaxBlock
    /\ argv \in [calculateRisk : BOOLEAN, etherscanApiKey : {Undefined, SomeApiKey}]
    /\ calls = {}

\* the steps of main and of the functions it calls
MainStep ==
    \/ MainGetBlockNumber
    \/ GetBlockNumber
    \/ MainGetPastLogs
    \/ ReconstructThrows
    \/ ReconstructApprovals
    \/ AllowanceCallback
    \/ GetApprovalsReturn
    \/ MainAddRiskScore
    \/ RiskStart
    \/ BalanceCallback
    \/ StartDecimals
    \/ DecimalsCallback
    \/ StartRates
    \/ RateCallback
    \/ VerificationThrows
    \/ Score
    \/ MainPrint

NextMain ==
    \/ MainStep
    \/ NewBlock

SpecMain == InitMain /\ [][NextMain]_vars

-----------------------------------------------------------------------------
(* Claims about getApprovals and the batch barrier, under SpecApprovals. *)

\* the sort and the forEach have run (the map is built, or the function was rejected)
Reconstructed == pc \in {"ga_awaitAllowance", "ga_done", "ga_failed"}

\* (contract, spender) of a well-formed log
KeyOfLog(l) == <<l.address, l.topics[3].low>>

\* a is before b in (blockNumber, transactionIndex, logIndex) order
Before(a, b) ==
    \/ a.blockNumber < b.blockNumber
    \/ /\ a.blockNumber = b.blockNumber
       /\ a.transactionIndex < b.transactionIndex
    \/ /\ a.blockNumber = b.blockNumber
       /\ a.transactionIndex = b.transactionIndex
       /\ a.logIndex < b.logIndex

DistinctPositions(logs) ==
    \A i, j \in 1..Len(logs) : i # j => Before(logs[i], logs[j]) \/ Before(logs[j], logs[i])

OwnersApprovals(logs) == \A i \in 1..Len(logs) : logs[i] \in WellFormedLogs

\* the index of the log of the given key that no other log of that key is after
LatestOf(logs, key) ==
    CHOOSE i \in 1..Len(logs) :
        /\ KeyOfLog(logs[i]) = key
        /\ \A j \in 1..Len(logs) :
              (j # i /\ KeyOfLog(logs[j]) = key) => Before(logs[j], logs[i])

\* C1: for Approval logs of the queried owner at pairwise distinct (blockNumber,
\* transactionIndex, logIndex), the map getApprovals builds holds exactly one entry
\* per (contract, spender) key of the logs and no other entry, and the entry's amount
\* is the amount of the latest log of its key.
C1_LatestWins ==
    (Reconstructed /\ OwnersApprovals(rawLogs) /\ DistinctPositions(rawLogs)) =>
        /\ pc # "ga_failed"
        /\ \A i \in 1..Len(approvalMap) :
              \E j \in 1..Len(rawLogs) : KeyOfLog(rawLogs[j]) = approvalMap[i].key
        /\ \A j \in 1..Len(rawLogs) :
              LET key == KeyOfLog(rawLogs[j])
              IN /\ Cardinality(KeyIndex(approvalMap, key)) = 1
                 /\ \A i \in KeyIndex(approvalMap, key) :
                       approvalMap[i].amount = Str(rawLogs[LatestOf(rawLogs, key)].data)

\* two logs of one key with different amounts, answered latest first, were reconstructed
C1_Witness ==
    /\ pc = "ga_awaitAllowance"
    /\ Len(rawLogs) = 2
    /\ OwnersApprovals(rawLogs)
    /\ KeyOfLog(rawLogs[1]) = KeyOfLog(rawLogs[2])
    /\ rawLogs[1].data # rawLogs[2].data
    /\ Before(rawLogs[2], rawLogs[1])
    /\ Len(approvalMap) = 1

\* C2: no approval of the report getApprovals returns has the zero address as its
\* spender.
C2_NoNullSpenderInReport ==
    pc = "ga_done" =>
        \A i \in 1..Len(report.approvals) : report.approvals[i].spender # nullAddress

\* C3: with an empty item collection the promise of makeBatchRequestPromise is
\* resolved at once and no batch is executed.
C3_EmptyBatchResolvesWithoutNetwork ==
    (promise # "none" /\ numRequests = 0) => (promise = "resolved" /\ executed = 0)

\* C4: with N >= 1 items, the promise is resolved only once every callback has fired
\* and the handler has run for every item (each allowance item then carries what its
\* handler wrote), and no callback's error rejects it.
C4_BatchBarrier ==
    /\ promise # "rejected"
    /\ (numRequests >= 1 /\ promise = "resolved") =>
          /\ pending = {}
          /\ numResponses = numRequests
          /\ handled = 1..numRequests
          /\ \A i \in 1..numRequests : outcome[kind][i] # NotFired
          /\ kind = "allowance" =>
                \A i \in 1..numRequests :
                    \A j \in KeyIndex(approvalMap, items[i]) :
                        \/ approvalMap[j].allowance # Undefined
                        \/ approvalMap[j].allowanceError # Undefined

\* a batch of two items, one of them failed, is resolved
C4_Witness ==
    /\ promise = "resolved"
    /\ numRequests = 2
    /\ \E i \in 1..numRequests : outcome[kind][i].error = SomeError
    /\ \E i \in 1..numRequests : outcome[kind][i].error = NoError

\* the approval of the report that the i-th allowance request was made for
ApprovalOfItem(i) ==
    LET j == CHOOSE k \in 1..Len(report.approvals) :
                 <<report.approvals[k].contract, report.approvals[k].spender>> = items[i]
    IN report.approvals[j]

\* C5: in the report, an approval whose allowance call failed has allowanceError =
\* true and no allowance, and every approval whose call succeeded has the allowance
\* its call returned and no allowanceError, whichever calls fail and in whatever
\* order the callbacks fire.
C5_AllowanceFaultIsolation ==
    pc = "ga_done" =>
        \A i \in 1..numRequests :
            /\ outcome[kind][i].error = SomeError =>
                  /\ ApprovalOfItem(i).allowanceError = True
                  /\ ApprovalOfItem(i).allowance = Undefined
            /\ outcome[kind][i].error = NoError =>
                  /\ ApprovalOfItem(i).allowance = outcome[kind][i].result
                  /\ ApprovalOfItem(i).allowanceError = Undefined

\* a report of two approvals: the allowance call of one failed, the other's succeeded
C5_Witness ==
    /\ pc = "ga_done"
    /\ numRequests = 2
    /\ \E i, j \in 1..numRequests :
          /\ outcome[kind][i].error = SomeError
          /\ outcome[kind][j].error = NoError
          /\ ApprovalOfItem(j).allowance = outcome[kind][j].result

-----------------------------------------------------------------------------
(* Claims about addApprovalRiskScore, under SpecRisk. *)

\* balances, had the balance callbacks fired in the order of their items
RECURSIVE balancesInOrder(_, _)
balancesInOrder(approvals, k) ==
    IF k = 0
    THEN [c \in Contracts |-> Undefined]
    ELSE handleBalance(balancesInOrder(approvals, k - 1), approvals[k],
                       outcome["balance"][k].error, outcome["balance"][k].result)

\* exchangeRates, had the exchange-rate callbacks fired in the order of their items
RECURSIVE ratesInOrder(_, _)
ratesInOrder(tokens, k) ==
    IF k = 0
    THEN [c \in Contracts |-> Undefined]
    ELSE handleRate(ratesInOrder(tokens, k - 1), tokens[k],
                    outcome["rate"][k].error, outcome["rate"][k].result)

\* C6: with the logs and the outcome of every single call fixed, the final report is
\* the same for every order in which the callbacks of a batch fire: it is the report
\* of the run whose callbacks fire in the order of their items.
C6_CompletionOrderIndependent ==
    pc = "rs_done" =>
        scored = [owner |-> report.owner,
                  approvals |->
                      scoredApprovals(report.approvals,
                                      balancesInOrder(report.approvals, Len(report.approvals)),
                                      ratesInOrder(tokenAddresses, Len(tokenAddresses)),
                                      reputations)]

\* C7: within one batch no two sub-operations write the same slot of a result map,
\* also when several approvals share one token contract.
C7_DisjointWrites ==
    \A w1, w2 \in writers : w1[1] = w2[1] => w1[2] = w2[2]

\* C8: if the reputations map 0 to contract C, every approval on C in the returned
\* report has risk 0.
C8_BlacklistedContractHasNoRisk ==
    pc = "rs_done" =>
        \A i \in 1..Len(scored.approvals) :
            (/\ scored.approvals[i].contract \in DOMAIN reputations
             /\ reputations[scored.approvals[i].contract] = Num(0))
                => scored.approvals[i].risk = Num(0)

\* C9: called with a verification API key, addApprovalRiskScore is not aborted: once
\* its batches are through it returns a report with a risk for every approval.
C9_VerificationNeverAborts ==
    (truthy(etherscanApiKey) /\ pc \in {"rs_failed", "rs_done"}) =>
        /\ pc = "rs_done"
        /\ Len(scored.approvals) = Len(report.approvals)

\* C10: if the balanceOf call of an approval failed, the report shows the approval
\* with balance 0, its amount at risk is 0 and its risk is 0.
C10_FailedBalanceScoresZero ==
    pc = "rs_done" =>
        \A i \in 1..Len(report.approvals) :
            outcome["balance"][i].error = SomeError =>
                /\ scored.approvals[i].balance.v = 0
                /\ amountAtRisk(report.approvals[i], balances).v = 0
                /\ scored.approvals[i].risk = Num(0)

\* the smaller of two naturals
Smaller(a, b) == IF a < b THEN a ELSE b

\* the owner's balance of an approval's token as the scoring reads it (0 when unknown)
balanceRead(approval) ==
    IF truthy(balances[approval.contract]) THEN balances[approval.contract].v ELSE 0

\* C11: for every approval that is scored, the amount at risk is the smaller of the
\* approved amount and the owner's balance of the token, so it exceeds neither.
C11_AmountAtRiskIsMin ==
    pc = "rs_done" =>
        \A i \in 1..Len(report.approvals) :
            amountAtRisk(report.approvals[i], balances).v
                = Smaller(report.approvals[i].amount.v, balanceRead(report.approvals[i]))

\* the exchange-rate requests built for a token
rateRequestsFor(tokenAddress) ==
    {r \in requests : r.method = "getAmountsOut" /\ r.arg1 = tokenAddress}

\* the exchange-rate batch has been built
RatesRequested == pc \in {"rs_awaitRates", "rs_done"}

\* C12: the exchange-rate request built for a token quotes 10 ** 18 units when the
\* token's decimals() call failed, and 10 ** d units when it answered d.
C12_DecimalsFallbackPropagates ==
    RatesRequested =>
        \A i \in 1..Len(tokenAddresses) :
            /\ rateRequestsFor(tokenAddresses[i]) # {}
            /\ \A r \in rateRequestsFor(tokenAddresses[i]) :
                  r.exponent = IF outcome["decimals"][i].error = SomeError
                               THEN 18
                               ELSE outcome["decimals"][i].result.v

\* rate requests were built for two tokens, one whose decimals() call failed and one
\* whose call answered
C12_Witness ==
    /\ RatesRequested
    /\ \E i, j \in 1..Len(tokenAddresses) :
          /\ outcome["decimals"][i].error = SomeError
          /\ outcome["decimals"][j].error = NoError
          /\ \E r \in rateRequestsFor(tokenAddresses[i]) : r.exponent = 18
          /\ \E r \in rateRequestsFor(tokenAddresses[j]) : r.exponent = outcome["decimals"][j].result.v

\* the orders in which the client can return n logs
Orders(n) == {p \in [1..n -> 1..n] : \A i, j \in 1..n : i # j => p[i] # p[j]}

\* the logs returned in the order p
Reordered(logs, p) == [i \in 1..Len(logs) |-> logs[p[i]]]

\* the sort and the forEach have just run: no allowance callback has fired yet
JustReconstructed == pc = "ga_failed" \/ (pc = "ga_awaitAllowance" /\ handled = {})

\* the (key, amount) pairs of a map
KeyAmounts(map) == {<<map[i].key, map[i].amount>> : i \in 1..Len(map)}

\* C13: for Approval logs of the queried owner, the approvals getApprovals builds
\* from the order the client returned are those it builds from every other order of
\* the same logs: the same keys with the same amounts (or a rejection in every order).
C13_SortIndependence ==
    (JustReconstructed /\ OwnersApprovals(rawLogs)) =>
        \A p \in Orders(Len(rawLogs)) :
            LET other == reconstruct(Reordered(rawLogs, p), address)
            IN /\ other.threw <=> pc = "ga_failed"
               /\ ~other.threw => KeyAmounts(other.val) = KeyAmounts(approvalMap)

\* two logs of one key with different amounts, returned latest first, were
\* reconstructed; the other order of the two gives the same single approval
C13_Witness ==
    /\ JustReconstructed
    /\ pc # "ga_failed"
    /\ Len(rawLogs) = 2
    /\ OwnersApprovals(rawLogs)
    /\ KeyOfLog(rawLogs[1]) = KeyOfLog(rawLogs[2])
    /\ rawLogs[1].data # rawLogs[2].data
    /\ Before(rawLogs[2], rawLogs[1])
    /\ KeyAmounts(approvalMap) = {<<KeyOfLog(rawLogs[1]), Str(rawLogs[1].data)>>}
    /\ KeyAmounts(reconstruct(<<rawLogs[2], rawLogs[1]>>, address).val) = KeyAmounts(approvalMap)

\* a log that breaks the contract of the filter: it is no Approval log, or a topic
\* of it is no padded address, or its owner is not the queried address
Violating(l) ==
    \/ l.topics[1] # APPROVAL
    \/ ~l.topics[2].zeroPrefix
    \/ ~l.topics[3].zeroPrefix
    \/ l.topics[2].low # toLowerCase(address)

\* requests of the allowance batch
allowanceRequested == {r \in requests : r.method = "allowance"}

\* C14: if a returned log is no Approval log, or has an owner or spender topic
\* without the 12-byte zero prefix, or has an owner other than the queried address,
\* getApprovals is rejected: there is no report and no allowance batch is issued.
C14_ProtocolViolationsAreFatal ==
    (Reconstructed /\ \E i \in 1..Len(rawLogs) : Violating(rawLogs[i])) =>
        /\ pc = "ga_failed"
        /\ thrown # ""
        /\ report = NoReport
        /\ approvalMap = <<>>
        /\ executed = 0
        /\ allowanceRequested = {}

\* a well-formed log followed by a log with an unpadded spender topic was answered,
\* and getApprovals was rejected by unpadAddress
C14_Witness ==
    /\ pc = "ga_failed"
    /\ Len(rawLogs) = 2
    /\ rawLogs[1] \in WellFormedLogs
    /\ Before(rawLogs[1], rawLogs[2])
    /\ ~rawLogs[2].topics[3].zeroPrefix
    /\ thrown = "Not an address"
    /\ allowanceRequested = {}

\* the approval carries an allowance / is flagged allowanceError
hasAllowance(approval) == approval.allowance # Undefined
hasAllowanceError(approval) == approval.allowanceError = True

\* C17: in the report getApprovals returns, every approval whose spender is not the
\* zero address carries either an allowance or allowanceError = true, and never both.
C17_AllowanceOrError ==
    pc = "ga_done" =>
        \A i \in 1..Len(report.approvals) :
            report.approvals[i].spender # nullAddress =>
                /\ hasAllowance(report.approvals[i]) \/ hasAllowanceError(report.approvals[i])
                /\ ~(hasAllowance(report.approvals[i]) /\ hasAllowanceError(report.approvals[i]))

\* a report with two approvals of non-zero spenders: the allowance call of one
\* answered, that of the other failed
C17_Witness ==
    /\ pc = "ga_done"
    /\ \E i, j \in 1..Len(report.approvals) :
          /\ report.approvals[i].spender # nullAddress
          /\ report.approvals[j].spender # nullAddress
          /\ hasAllowance(report.approvals[i]) /\ ~hasAllowanceError(report.approvals[i])
          /\ hasAllowanceError(report.approvals[j]) /\ ~hasAllowance(report.approvals[j])

\* the keys of non-zero spenders whose latest log approves the amount 0
RevokedKeys(logs) ==
    {KeyOfLog(logs[j]) : j \in {k \in 1..Len(logs) :
        /\ KeyOfLog(logs[k])[2] # nullAddress
        /\ logs[LatestOf(logs, KeyOfLog(logs[k]))].data = 0}}

\* C19: when the latest log of a key with a non-zero spender approves the amount 0,
\* the key stays in the map with amount "0", an allowance call is issued for it, and
\* the report shows it with amount "0".
C19_ZeroAmountRetained ==
    (pc \in {"ga_awaitAllowance", "ga_done"} /\ DistinctPositions(rawLogs)) =>
        \A key \in RevokedKeys(rawLogs) :
            /\ \E i \in KeyIndex(approvalMap, key) : approvalMap[i].amount = Str(0)
            /\ \E r \in allowanceRequested :
                  r.to = key[1] /\ r.arg1 = address /\ r.arg2 = key[2]
            /\ pc = "ga_done" =>
                  \E i \in 1..Len(report.approvals) :
                      /\ report.approvals[i].contract = key[1]
                      /\ report.approvals[i].spender = key[2]
                      /\ report.approvals[i].amount = Str(0)

\* an approval of 1 followed by an approval of 0 for the same key was reported, and
\* the only allowance call of the run was the one for that key
C19_Witness ==
    /\ pc = "ga_done"
    /\ Len(rawLogs) = 2
    /\ KeyOfLog(rawLogs[1]) = KeyOfLog(rawLogs[2])
    /\ rawLogs[1].data = 1 /\ rawLogs[2].data = 0
    /\ Before(rawLogs[1], rawLogs[2])
    /\ RevokedKeys(rawLogs) = {KeyOfLog(rawLogs[1])}
    /\ Cardinality(allowanceRequested) = 1
    /\ Len(report.approvals) = 1
    /\ report.approvals[1].amount = Str(0)

\* the fields of an approval of getApprovals' report
ApprovalFields == {"contract", "spender", "amount", "allowance", "allowanceError"}

\* C18: the report of addApprovalRiskScore has the owner of the input report and one
\* approval per input approval, in the same order, each with the input's contract,
\* spender, amount, allowance and allowanceError, and with risk and balance as the
\* only added fields.
C18_ScoringKeepsApprovals ==
    pc = "rs_done" =>
        /\ scored.owner = report.owner
        /\ Len(scored.approvals) = Len(report.approvals)
        /\ \A i \in 1..Len(report.approvals) :
              /\ \A f \in ApprovalFields : scored.approvals[i][f] = report.approvals[i][f]
              /\ DOMAIN scored.approvals[i] = DOMAIN report.approvals[i] \cup {"risk", "balance"}

\* a report of three approvals, one of them to the null address and one with a
\* failed allowance call, was scored
C18_Witness ==
    /\ pc = "rs_done"
    /\ Len(report.approvals) = 3
    /\ Len(scored.approvals) = 3
    /\ \E i \in 1..3 : scored.approvals[i].spender = nullAddress
    /\ \E i \in 1..3 : hasAllowanceError(scored.approvals[i])
    /\ \E i \in 1..3 : hasAllowance(scored.approvals[i]) /\ scored.approvals[i].balance # Undefined

\* every callback of the batch of the given pass over n items has fired
allFired(k, n) ==
    /\ Len(outcome[k]) = n
    /\ \A i \in 1..n : outcome[k][i] # NotFired

\* some request of the given method has been built
built(method) == \E r \in requests : r.method = method

\* C16: no decimals request is built before every balance callback has fired, no
\* exchange-rate request before every decimals callback has fired, and no risk is
\* computed before every balance, decimals and exchange-rate callback has fired.
C16_StageOrdering ==
    /\ built("decimals") => allFired("balance", Len(report.approvals))
    /\ built("getAmountsOut") =>
          /\ allFired("balance", Len(report.approvals))
          /\ allFired("decimals", Len(tokenAddresses))
    /\ scored # NoReport =>
          /\ allFired("balance", Len(report.approvals))
          /\ allFired("decimals", Len(tokenAddresses))
          /\ allFired("rate", Len(tokenAddresses))

\* three approvals over two tokens were scored after three balance, two decimals and
\* two exchange-rate callbacks
C16_Witness ==
    /\ pc = "rs_done"
    /\ scored # NoReport
    /\ Len(report.approvals) = 3
    /\ Len(tokenAddresses) = 2
    /\ built("decimals") /\ built("getAmountsOut")
    /\ allFired("balance", 3) /\ allFired("decimals", 2) /\ allFired("rate", 2)

-----------------------------------------------------------------------------
(* Claims about a whole run of main, under SpecMain. *)

\* the getBlockNumber calls of the run
heightCalls == {c \in calls : c.method = "getBlockNumber"}

\* C15: in a run of main the chain height is read once, by main, and the toBlock of
\* the log query and the block of every allowance, balance, decimals and
\* exchange-rate call is the height that was read, however the chain grows meanwhile.
C15_PinnedBlockHeight ==
    pc # "main_start" =>
        /\ Cardinality(heightCalls) = 1
        /\ \A h \in heightCalls :
              /\ h.arg1 = "main"
              /\ blockNumber = h.block
              /\ \A c \in calls : c.block = h.block
              /\ \A r \in requests : r.block = h.block

\* a run with risk scoring has printed its report; the chain grew after main read
\* the height, and the log query and calls of all four passes were made
C15_Witness ==
    /\ pc = "main_done"
    /\ argv.calculateRisk
    /\ chainHeight > blockNumber
    /\ \E c \in calls : c.method = "getPastLogs" /\ c.block = blockNumber
    /\ \A m \in {"allowance", "balanceOf", "decimals", "getAmountsOut"} :
          \E r \in requests : r.method = m /\ r.block = blockNumber

\* the run has ended: the report is printed, or main was rejected
Completed == pc \in {"main_done", "ga_failed", "rs_failed"}

\* C20: with the log query answered and every callback fired, a run that has not
\* completed with a report or a fatal error can take a further step: no run is
\* left waiting for ever, whatever logs the owner has.
C20_RunCompletes == Completed \/ ENABLED MainStep

-----------------------------------------------------------------------------
(* The comparator of the sort, under SpecApprovals. *)

\* the logs the client answered with are at hand
LogsReturned == pc = "ga_reconstruct" \/ Reconstructed

\* C21: for every pair of returned logs the comparator answers, without throwing, a
\* negative number when the first is before the second in (blockNumber,
\* transactionIndex, logIndex) order, a positive number when it is after, and 0 when
\* the three keys are equal; so no sort is ended by the comparator.
C21_ComparatorTotalOrder ==
    LogsReturned =>
        /\ thrown # "ReferenceError: result is not defined"
        /\ \A i, j \in 1..Len(rawLogs) :
              LET c == compareNumberKeys(SortKeys, rawLogs[i], rawLogs[j])
              IN /\ ~c.threw
                 /\ Before(rawLogs[i], rawLogs[j]) => c.val < 0
                 /\ Before(rawLogs[j], rawLogs[i]) => c.val > 0
                 /\ (~Before(rawLogs[i], rawLogs[j]) /\ ~Before(rawLogs[j], rawLogs[i])) => c.val = 0

====
